---------------------------- MODULE Spec2Model ----------------------------
(***************************************************************************)
(* A model of the Fancy UI 5e HUD overlay (dungeonblaster/fancyui2).       *)
(*                                                                         *)
(* The module holds several specifications over one set of variables:      *)
(*   SpecHp       the hit-points editor of the player HUD (focus, typing,  *)
(*                blur, Enter, the host applying or rejecting the update); *)
(*   SpecDeltas   the same editor with update requests overlapping;        *)
(*   SpecGestures the editor's events and the party's gestures on the      *)
(*                fields and pictures of both HUDs;                        *)
(*   Spec         the event dispatch table (rolls, sheet, token selection, *)
(*                the three popovers) together with the renders of the     *)
(*                player HUD and the host events that start them;          *)
(*   SpecClicks   the delegated click handlers of an ability and its save  *)
(*                label;                                                   *)
(*   SpecHooks    the hook subscriptions of main.js with the renders of    *)
(*                both containers suspended at renderTemplate;             *)
(*   SpecChar     getCharacter on the tokens as the host hands them out;   *)
(*   SpecFav      the Favorites Resolver, getActions, as a pure function   *)
(*                of the stored favorites list;                            *)
(*   SpecParty    the party roster, getPartyCharacters, as a pure function *)
(*                of the actors, the tokens and the setting;               *)
(*   SpecView     the Display-Model Builder, characterData, as a pure      *)
(*                function of the actor record.                            *)
(* A specification leaves the variables of the others at their initial     *)
(* values.                                                                 *)
(***************************************************************************)
EXTENDS Integers, Sequences, FiniteSets

VARIABLES
    \* ---- host-owned state
    exists,          \* ids for which game.actors.get(id) returns an actor
    hp,              \* actor.system.attributes.hp.value, per actor id
    tokens,          \* actor ids with a token among canvas.tokens.placeables
    controlled,      \* actor of canvas.tokens.controlled[0], or None
    userChar,        \* game.user.character, or None
    isGM,            \* game.users.get(game.userId).isGM
    \* ---- the DOM of #player-character
    hud,             \* Empty, or what the rendered template shows
    actionsShown,    \* .character-actions has class "show"
    statsShown,      \* .character-stats has class "show"
    doll,            \* #character-paperdoll: "absent", "hidden" or "shown"
    fieldValue,      \* this.value of #current-health, a string of characters
    datasetValue,    \* this.dataset.value of #current-health
    focused,         \* the HP field has focus (editor state Editing)
    \* ---- suspended asynchronous work
    pendingUpdates,  \* actor.update() calls awaiting the host, oldest first
    renders,         \* renderCharacter() calls awaiting renderTemplate
    \* ---- the handler that ran in the last step
    last,            \* its name, its inputs and the state it started from
    out,             \* what it surfaced: warning, host API call, exception
    \* ---- Favorites Resolver
    favorites,       \* actor.system.favorites
    actions,         \* the list getActions returned for it
    \* ---- party roster and view-model builder
    actorTypes,      \* actor.type, per actor id
    partyOnlyActive, \* the world setting "party-only-active"
    roster,          \* the actors getPartyCharacters returned
    actor,           \* the actor record handed to characterData
    views,           \* the view-models characterData returned for it, oldest first
    \* ---- hook subscriptions and the two containers
    disablePartyHud, \* the world setting "disable-party-hud"
    party,           \* what #party shows: the view-models of the rendered roster
    tasks,           \* hook handlers suspended at a timeout or at renderTemplate
    \* ---- getCharacter
    canvasTokens,    \* canvas.tokens: whether it is defined, and its `controlled`
    resolved         \* what getCharacter returned

hostVars == <<exists, hp, tokens, controlled, userChar, isGM>>
domVars  == <<hud, actionsShown, statsShown, doll, fieldValue, datasetValue, focused>>
hpDomVars == <<fieldValue, datasetValue, focused>>
asyncVars == <<pendingUpdates, renders>>
favVars  == <<favorites, actions>>
viewVars == <<actorTypes, partyOnlyActive, roster, actor, views>>
hookVars == <<disablePartyHud, party, tasks, canvasTokens, resolved>>
vars == <<exists, hp, tokens, controlled, userChar, isGM,
          hud, actionsShown, statsShown, doll, fieldValue, datasetValue, focused,
          pendingUpdates, renders, last, out, favorites, actions,
          actorTypes, partyOnlyActive, roster, actor, views,
          disablePartyHud, party, tasks, canvasTokens, resolved>>

(***************************************************************************)
(* Bounds of the model.                                                    *)
(***************************************************************************)
MaxLen == 2          \* longest text typed into the HP field
HpBound == 15        \* updates are followed while 0 <= hp <= HpBound
MaxPending == 1      \* actor.update() calls in flight
MaxRenders == 1      \* renderCharacter() calls in flight
MaxFavs == 3          \* longest stored favorites list
MaxCalls == 2         \* calls of characterData on one actor
MaxTasks == 2         \* hook handlers suspended at once
MaxControlled == 2    \* tokens controlled at once
MaxOverlapping == 2   \* actor.update() calls in flight where Enter is pressed again

ActorIds == {"a1", "a2"}
None == "none"

(***************************************************************************)
(* Numbers.  A JavaScript number is either NaN or (here) an integer.       *)
(***************************************************************************)
NaN == [nan |-> TRUE, n |-> 0]
Num(n) == [nan |-> FALSE, n |-> n]
Add(x, y) == IF x.nan \/ y.nan THEN NaN ELSE Num(x.n + y.n)

(***************************************************************************)
(* Strings are sequences of one-character strings.                         *)
(***************************************************************************)
Alphabet == {"+", "-", "5", "a", " "}
DigitChars == <<"0", "1", "2", "3", "4", "5", "6", "7", "8", "9">>

DigitVal(c) == CHOOSE d \in 0..9 : DigitChars[d + 1] = c

RECURSIVE DropLeft(_)
DropLeft(s) == IF s # <<>> /\ Head(s) = " " THEN DropLeft(Tail(s)) ELSE s

RECURSIVE DropRight(_)
DropRight(s) ==
    IF s # <<>> /\ s[Len(s)] = " " THEN DropRight(SubSeq(s, 1, Len(s) - 1)) ELSE s

\* String.prototype.trim
Trim(s) == DropRight(DropLeft(s))

IsDigits(s) == s # <<>> /\ \A i \in 1..Len(s) : s[i] \in {DigitChars[d] : d \in 1..10}

RECURSIVE DecimalValue(_)
DecimalValue(s) ==
    IF s = <<>> THEN 0
    ELSE 10 * DecimalValue(SubSeq(s, 1, Len(s) - 1)) + DigitVal(s[Len(s)])

\* Number(string), for strings over signs, decimal digits, letters and blanks:
\* blank text is 0, an optionally signed run of digits is its value, anything
\* else is NaN.
ToNumber(str) ==
    LET s == Trim(str) IN
    IF s = <<>> THEN Num(0)
    ELSE IF IsDigits(s) THEN Num(DecimalValue(s))
    ELSE IF Head(s) = "+" /\ IsDigits(Tail(s)) THEN Num(DecimalValue(Tail(s)))
    ELSE IF Head(s) = "-" /\ IsDigits(Tail(s)) THEN Num(0 - DecimalValue(Tail(s)))
    ELSE NaN

RECURSIVE NatToString(_)
NatToString(n) ==
    IF n < 10 THEN <<DigitChars[n + 1]>>
    ELSE Append(NatToString(n \div 10), DigitChars[(n % 10) + 1])

\* String(number), the coercion of `this.value = currentHp` and of {{hp.value}}
ToString(x) ==
    IF x.nan THEN <<"N", "a", "N">>
    ELSE IF x.n < 0 THEN <<"-">> \o NatToString(0 - x.n)
    ELSE NatToString(x.n)

StartsWithSign(s) == s # <<>> /\ Head(s) \in {"+", "-"}

(***************************************************************************)
(* Host queries.                                                           *)
(***************************************************************************)
\* getCharacter(): the actor of the first controlled token when it resolves,
\* else the user's assigned character, else nothing.
GetCharacterOf(ctl) ==
    IF ctl # None /\ ctl \in exists THEN ctl
    ELSE IF userChar # None /\ userChar \in exists THEN userChar
    ELSE None

GetCharacter == GetCharacterOf(controlled)

EmptyHud == [id |-> None, hp |-> Num(0)]

\* The part of characterData(actor) the HUD state keeps: the id written to
\* data-id / data-character-id and hp.value written to the HP field.
CharacterData(a) == [id |-> a, hp |-> hp[a]]

(***************************************************************************)
(* What a step records about the handler it ran.                           *)
(***************************************************************************)
NoPre == [actions |-> FALSE, stats |-> FALSE, doll |-> "absent", hud |-> EmptyHud,
          nPending |-> 0, field |-> <<>>, cur |-> Num(0)]

\* The element a click landed on, as the handlers read it: whether closest()
\* finds an ancestor carrying the id attribute, the id it carries ("" when
\* empty), and the second attribute the handler needs (data-ability,
\* data-skill, data-item-id; "" when missing).
NoElement == [anc |-> FALSE, characterId |-> "", key |-> ""]

\* `cap`: the method the handler found the actor to expose, where it looks for one
\* `target`: the element the click landed on, where the handler was reached by
\* bubbling
NoHandler == [h |-> "none", el |-> NoElement, ctx |-> "ok", cap |-> "", target |-> "",
              pre |-> NoPre]
Quiet == [warn |-> "", call |-> "none", uncaught |-> FALSE]

\* A handler of the HP editor ran: its name, whether game.actors.get found the
\* actor, and what it started from: the update requests in flight, the text
\* in the field and the HP of the actor the field refers to.
HandledHp(h, ctx) ==
    [h |-> h, el |-> NoElement, ctx |-> ctx, cap |-> "", target |-> "",
     pre |-> [NoPre EXCEPT !.nPending = Len(pendingUpdates), !.field = fieldValue,
                           !.cur = IF hud.id \in ActorIds THEN hp[hud.id] ELSE Num(0)]]

\* A handler of the dispatch table ran: its name, what its guards found, and
\* the displayed state it started from.
HandledUi(h, el, ctx) ==
    [h |-> h, el |-> el, ctx |-> ctx, cap |-> "", target |-> "",
     pre |-> [actions |-> actionsShown, stats |-> statsShown, doll |-> doll,
              hud |-> hud, nPending |-> 0, field |-> <<>>, cur |-> Num(0)]]

\* Every in-flight update's `this` is an element the render has replaced.
Detached(q) == [i \in DOMAIN q |-> [q[i] EXCEPT !.attached = FALSE]]

InRange(x) == x.nan \/ (x.n >= 0 /\ x.n <= HpBound)

(***************************************************************************)
(* The hit-points editor: setupHealthPointsTracker.                        *)
(***************************************************************************)
\* focus handler: this.value = ""
Focus ==
    /\ hud.id # None
    /\ ~focused
    /\ focused' = TRUE
    /\ fieldValue' = <<>>
    /\ last' = HandledHp("focus", "ok")
    /\ out' = Quiet
    /\ UNCHANGED <<hostVars, hud, actionsShown, statsShown, doll, datasetValue,
                   asyncVars, favVars, viewVars, hookVars>>

\* The user types one character; the keydown handler returns at once, the key
\* not being Enter.
TypeChar(c) ==
    /\ focused
    /\ Len(fieldValue) < MaxLen
    /\ fieldValue' = Append(fieldValue, c)
    /\ last' = NoHandler
    /\ out' = Quiet
    /\ UNCHANGED <<hostVars, hud, actionsShown, statsShown, doll, datasetValue,
                   focused, asyncVars, favVars, viewVars, hookVars>>

\* A blur handler that leaves the typed text in the field.
BlurRepaint_KeepsText(actorFound, currentHp) == UNCHANGED <<fieldValue, datasetValue>>

\* blur handler: repaint from the live actor, when game.actors.get finds it
BlurRepaint(actorFound, currentHp) ==
    IF actorFound
    THEN /\ fieldValue' = ToString(currentHp)
         /\ datasetValue' = currentHp
    ELSE UNCHANGED <<fieldValue, datasetValue>>

Blur ==
    /\ focused
    /\ focused' = FALSE
    /\ BlurRepaint(hud.id \in exists, IF hud.id \in exists THEN hp[hud.id] ELSE Num(0))
    /\ last' = HandledHp("blur", IF hud.id \in exists THEN "ok" ELSE "noActor")
    /\ out' = Quiet
    /\ UNCHANGED <<hostVars, hud, actionsShown, statsShown, doll, asyncVars, favVars, viewVars, hookVars>>

\* A keydown handler that takes every text for an absolute value.
NewHp_AlwaysAbsolute(current, inputValue) == ToNumber(inputValue)

\* The value the keydown handler computes for the update: a delta on the
\* current HP when the trimmed text starts with a sign, else the number typed.
NewHp(current, inputValue) ==
    IF StartsWithSign(inputValue)
    THEN Add(current, ToNumber(inputValue))
    ELSE ToNumber(inputValue)

\* A keydown handler without the `if (!inputValue) return`.
EnterIssues_NoEmptyCheck(actorFound, inputValue) == actorFound

\* Whether the keydown handler goes on to actor.update(): the actor was found
\* and the trimmed text is not empty.
EnterIssues(actorFound, inputValue) == actorFound /\ inputValue # <<>>

\* keydown handler, e.key === "Enter", with fewer than `limit` update
\* requests in flight.  The suspended handler keeps the text it read.
EnterKeyUpTo(limit) ==
    /\ focused
    /\ LET actorFound == hud.id \in exists
           current == IF actorFound THEN hp[hud.id] ELSE Num(0)
           inputValue == Trim(fieldValue)
           newHp == NewHp(current, inputValue)
       IN /\ last' = HandledHp("enter", IF actorFound THEN "ok" ELSE "noActor")
          /\ IF EnterIssues(actorFound, inputValue)
             THEN /\ Len(pendingUpdates) < limit
                  /\ InRange(newHp)
                  /\ pendingUpdates' = Append(pendingUpdates,
                         [actor |-> hud.id, input |-> inputValue, value |-> newHp,
                          attached |-> TRUE])
                  /\ out' = [Quiet EXCEPT !.call = "update"]
             ELSE /\ pendingUpdates' = pendingUpdates
                  /\ out' = Quiet
    /\ UNCHANGED <<hostVars, domVars, renders, favVars, viewVars, hookVars>>

EnterKey == EnterKeyUpTo(MaxPending)

\* The hit-points fields of the two containers: the player's carries an id,
\* the party's a class (and is read-only).
PlayerHpField == [container |-> "player-character", id |-> "current-health", class |-> ""]
PartyHpField == [container |-> "party", id |-> "", class |-> "current-health"]

\* A tracker bound to every field of class current-health.
HpSelector_AnyHealthField == [container |-> "", id |-> "", class |-> "current-health"]

\* setupHealthPointsTracker("#player-character #current-health")
HpSelector == [container |-> "player-character", id |-> "current-health", class |-> ""]

\* Whether a delegated listener's selector matches the element of the event
Matches(sel, e) ==
    /\ sel.container \in {"", e.container}
    /\ sel.id \in {"", e.id}
    /\ sel.class \in {"", e.class}

FieldEvents == {"focus", "blur", "keydown"}

\* A gesture on the hit-points field the party container shows for actor
\* `a` (focus, blur, Enter): the tracker's handlers run if its selector
\* matches the field, the keydown handler as in the player HUD.
PartyFieldGesture(a, ev) ==
    /\ \E c \in party : c.id = a
    /\ LET matched == Matches(HpSelector, PartyHpField)
           inputValue == Trim(ToString((CHOOSE c \in party : c.id = a).hp))
           issues == matched /\ ev = "keydown" /\ EnterIssues(a \in exists, inputValue)
       IN /\ last' = [NoHandler EXCEPT !.h = IF matched THEN ev ELSE "none", !.ctx = ev,
                                       !.el.characterId = a, !.target = "party field"]
          /\ IF issues
             THEN /\ Len(pendingUpdates) < MaxPending
                  /\ pendingUpdates' = Append(pendingUpdates,
                         [actor |-> a, input |-> inputValue, value |-> NewHp(hp[a], inputValue),
                          attached |-> FALSE])
                  /\ out' = [Quiet EXCEPT !.call = "update"]
             ELSE /\ pendingUpdates' = pendingUpdates
                  /\ out' = Quiet
    /\ UNCHANGED <<hostVars, domVars, renders, favVars, viewVars, hookVars>>

\* The host applies the oldest update.  Its updateActor hook starts a render
\* of the player HUD when the actor is the current character; then the awaited
\* update() resolves and the keydown handler clears the field it was typed in.
HostApplyUpdate ==
    /\ pendingUpdates # <<>>
    /\ LET req == Head(pendingUpdates)
           isCurrent == req.actor = GetCharacter
       IN /\ req.actor \in exists
          /\ hp' = [hp EXCEPT ![req.actor] = req.value]
          /\ IF isCurrent
             THEN /\ Len(renders) < MaxRenders
                  /\ renders' = Append(renders,
                         [data |-> [id |-> req.actor, hp |-> req.value], stale |-> FALSE])
             ELSE renders' = renders
          /\ IF req.attached
             THEN fieldValue' = <<>> /\ datasetValue' = req.value
             ELSE UNCHANGED <<fieldValue, datasetValue>>
    /\ pendingUpdates' = Tail(pendingUpdates)
    /\ last' = NoHandler
    /\ out' = Quiet
    /\ UNCHANGED <<exists, tokens, controlled, userChar, isGM,
                   hud, actionsShown, statsShown, doll, focused, favVars, viewVars, hookVars>>

\* The host rejects the oldest update: the awaited update() throws inside the
\* keydown handler, which has no try/catch.
HostRejectUpdate ==
    /\ pendingUpdates # <<>>
    /\ pendingUpdates' = Tail(pendingUpdates)
    /\ last' = [NoHandler EXCEPT !.h = "enter-rejected"]
    /\ out' = [Quiet EXCEPT !.uncaught = TRUE]
    /\ UNCHANGED <<hostVars, domVars, renders, favVars, viewVars, hookVars>>

\* renderTemplate resolves for one in-flight renderCharacter(): its markup
\* replaces the content of the element it captured.
RenderDone(i) ==
    /\ i \in DOMAIN renders
    /\ renders' = [j \in 1..(Len(renders) - 1) |-> IF j < i THEN renders[j] ELSE renders[j + 1]]
    /\ IF renders[i].stale
       THEN UNCHANGED <<domVars, pendingUpdates>>
       ELSE /\ hud' = renders[i].data
            /\ actionsShown' = FALSE
            /\ statsShown' = FALSE
            /\ doll' = "absent"
            /\ fieldValue' = ToString(renders[i].data.hp)
            /\ datasetValue' = renders[i].data.hp
            /\ focused' = FALSE
            /\ pendingUpdates' = Detached(pendingUpdates)
    /\ last' = NoHandler
    /\ out' = Quiet
    /\ UNCHANGED <<hostVars, favVars, viewVars, hookVars>>

\* The host deletes an actor; the module subscribes to no event for it.
DeleteActor(a) ==
    /\ a \in exists
    /\ exists' = exists \ {a}
    /\ last' = NoHandler
    /\ out' = Quiet
    /\ UNCHANGED <<hp, tokens, controlled, userChar, isGM,
                   domVars, asyncVars, favVars, viewVars, hookVars>>

(***************************************************************************)
(* Rendering the player HUD: renderCharacter.                              *)
(***************************************************************************)
\* renderCharacter() up to its await, in a host state where `ctl` is the
\* controlled token's actor.  Without a character the container is removed and
\* created anew, empty: renders still in flight hold the removed element.
\* With one, the view-model is built now and the markup is written later.
RenderCharacter(ctl) ==
    LET character == GetCharacterOf(ctl) IN
    IF character = None
    THEN /\ hud' = EmptyHud
         /\ actionsShown' = FALSE
         /\ statsShown' = FALSE
         /\ doll' = "absent"
         /\ fieldValue' = <<>>
         /\ datasetValue' = Num(0)
         /\ focused' = FALSE
         /\ renders' = [i \in DOMAIN renders |-> [renders[i] EXCEPT !.stale = TRUE]]
         /\ pendingUpdates' = Detached(pendingUpdates)
    ELSE /\ Len(renders) < MaxRenders
         /\ renders' = Append(renders, [data |-> CharacterData(character), stale |-> FALSE])
         /\ UNCHANGED <<domVars, pendingUpdates>>

\* renderApplication hook: renderCharacter() first
RenderApplicationHook ==
    /\ RenderCharacter(controlled)
    /\ last' = NoHandler
    /\ out' = Quiet
    /\ UNCHANGED <<hostVars, favVars, viewVars, hookVars>>

\* The user controls a token on the canvas, or releases the controlled one.
\* controlToken hook: a GM's HUD is rendered anew.
ControlToken(c) ==
    /\ c \in tokens \cup {None}
    /\ c # controlled
    /\ controlled' = c
    /\ IF isGM THEN RenderCharacter(c) ELSE UNCHANGED <<domVars, asyncVars>>
    /\ last' = NoHandler
    /\ out' = Quiet
    /\ UNCHANGED <<exists, hp, tokens, userChar, isGM, favVars, viewVars, hookVars>>

\* A token is deleted from the canvas.  deleteToken hook: as controlToken.
DeleteToken(a) ==
    /\ a \in tokens
    /\ tokens' = tokens \ {a}
    /\ controlled' = IF controlled = a THEN None ELSE controlled
    /\ IF isGM
       THEN RenderCharacter(IF controlled = a THEN None ELSE controlled)
       ELSE UNCHANGED <<domVars, asyncVars>>
    /\ last' = NoHandler
    /\ out' = Quiet
    /\ UNCHANGED <<exists, hp, userChar, isGM, favVars, viewVars, hookVars>>

(***************************************************************************)
(* The event dispatch table: actions.js and the toggles of main.js.        *)
(***************************************************************************)
ItemIds == {"sword", "rage", "note", "junk"}

\* What rollAction finds on an item: item.data?.data?.activities in order (is
\* activity.roll a function?), whether item.toChat is a function, whether
\* item.system.description.value is set.
Item(id) ==
    CASE id = "sword" -> [acts |-> <<FALSE, TRUE, TRUE>>, toChat |-> TRUE, desc |-> TRUE]
      [] id = "rage" -> [acts |-> <<>>, toChat |-> TRUE, desc |-> TRUE]
      [] id = "note" -> [acts |-> <<FALSE>>, toChat |-> FALSE, desc |-> TRUE]
      [] OTHER -> [acts |-> <<>>, toChat |-> FALSE, desc |-> FALSE]

\* Elements a click can land on: outside any carrier of the data attributes,
\* or inside one, whose attributes may be empty.
Elements(ids, keys) ==
    {NoElement} \cup [anc : {TRUE}, characterId : ids \cup {""}, key : keys \cup {""}]

\* Elements of the player HUD carry the id of the character it was rendered for.
PlayerElements(keys) == Elements({hud.id}, keys)

\* Party pictures carry data-character only.
PartyElements == Elements(ActorIds, {})

\* Whether the awaited (or called) host API returns or throws.
Results == {"ok", "throws"}

\* $(".character-actions").removeClass("show"); $(".character-stats").removeClass("show")
ClosePanels_LeavesStats == actionsShown' = FALSE /\ statsShown' = statsShown

ClosePanels == actionsShown' = FALSE /\ statsShown' = FALSE

RollGuard_NoAttributeCheck(el) ==
    IF ~el.anc THEN "noAncestor"
    ELSE IF el.characterId \notin exists THEN "noActor"
    ELSE "ok"

\* The guards of rollAbility, rollSkill and rollSave: closest(), the two data
\* attributes, game.actors.get.
RollGuard(el) ==
    IF ~el.anc THEN "noAncestor"
    ELSE IF el.characterId = "" \/ el.key = "" THEN "noAttr"
    ELSE IF el.characterId \notin exists THEN "noActor"
    ELSE "ok"

\* The guards of rollAction: those of a roll, then actor.items.get.
ActionGuard(el) ==
    IF RollGuard(el) # "ok" THEN RollGuard(el)
    ELSE IF el.key \notin ItemIds THEN "noItem"
    ELSE "ok"

\* The guards of openSheet and selectToken: closest("[data-character]") and
\* its data-character.
CharacterGuard(el) == IF ~el.anc \/ el.characterId = "" THEN "noAttr" ELSE "ok"

SheetGuard(el) ==
    IF CharacterGuard(el) # "ok" THEN "noAttr"
    ELSE IF el.characterId \notin exists THEN "noActor"
    ELSE "ok"

\* ui.notifications.warn(...) of the roll handlers
WarnText(ctx) ==
    CASE ctx = "noAncestor" -> "No character data found."
      [] ctx = "noAttr" -> "Missing required data attributes."
      [] ctx = "noActor" -> "Actor not found."
      [] ctx = "noItem" -> "Item not found."
      [] OTHER -> ""

Warned(text) == [Quiet EXCEPT !.warn = text]
Called(api, res) == [warn |-> "", call |-> api, uncaught |-> res = "throws"]

\* rollAbility, rollSkill, rollSave: close the panels, run the guards, await
\* the host's roll.  Nothing follows the await, so a rejected roll is an
\* unhandled rejection of the handler.
Roll(h, cap, api, el, res) ==
    /\ hud.id # None
    /\ ClosePanels
    /\ last' = [HandledUi(h, el, RollGuard(el)) EXCEPT !.cap = IF RollGuard(el) = "ok" THEN cap ELSE ""]
    /\ out' = IF RollGuard(el) # "ok" THEN Warned(WarnText(RollGuard(el))) ELSE Called(api, res)
    /\ UNCHANGED <<hostVars, hud, doll, hpDomVars, asyncVars, favVars, viewVars, hookVars>>

RollAbility(el, res) == Roll("rollAbility", "", "rollAbilityCheck", el, res)

SkillCall_RetriesLegacy(v2, res) ==
    IF v2 THEN (IF res = "throws" THEN "rollSkillV2, rollSkill" ELSE "rollSkillV2")
    ELSE "rollSkill"

\* if (actor.rollSkillV2) await actor.rollSkillV2(...) else await actor.rollSkill(...):
\* the method called; nothing follows the await, whatever it does
SkillCall(v2, res) == IF v2 THEN "rollSkillV2" ELSE "rollSkill"

\* `v2`: the actor exposes rollSkillV2
RollSkill(el, v2, res) ==
    Roll("rollSkill", IF v2 THEN "rollSkillV2" ELSE "rollSkill", SkillCall(v2, res), el, res)

RollSave(el, res) == Roll("rollSave", "", "rollSavingThrow", el, res)

\* The capability chain of rollAction: the first activity with a roll(), else
\* item.toChat(), else a chat message with the description, else a warning.
FirstRollable_Last(acts) == CHOOSE i \in DOMAIN acts : acts[i] /\ \A j \in DOMAIN acts : acts[j] => j <= i

\* The activity the loop stops at: it returns after the first roll()
FirstRollable(acts) == CHOOSE i \in DOMAIN acts : acts[i] /\ \A j \in 1..(i - 1) : ~acts[j]

\* await activity.roll() of the i-th activity
ActivityRoll(i) ==
    CASE i = 1 -> "activities[1].roll"
      [] i = 2 -> "activities[2].roll"
      [] OTHER -> "activities[3].roll"

ItemCall(item) ==
    IF \E i \in DOMAIN item.acts : item.acts[i] THEN ActivityRoll(FirstRollable(item.acts))
    ELSE IF item.toChat THEN "item.toChat"
    ELSE IF item.desc THEN "ChatMessage.create"
    ELSE "none"

RollAction(el, res) ==
    /\ hud.id # None
    /\ ClosePanels
    /\ last' = HandledUi("rollAction", el, ActionGuard(el))
    /\ out' = IF ActionGuard(el) # "ok" THEN Warned(WarnText(ActionGuard(el)))
              ELSE IF ItemCall(Item(el.key)) = "none"
                   THEN Warned("This item type cannot be rolled or sent to chat.")
              ELSE Called(ItemCall(Item(el.key)), res)
    /\ UNCHANGED <<hostVars, hud, doll, hpDomVars, asyncVars, favVars, viewVars, hookVars>>

\* openSheet: click on .sheet of the player HUD, double click on a party picture
OpenSheet(el, res) ==
    /\ ClosePanels
    /\ last' = HandledUi("openSheet", el, SheetGuard(el))
    /\ out' = IF SheetGuard(el) = "noAttr" THEN Warned("Character not found.")
              ELSE IF SheetGuard(el) = "noActor" THEN Warned("Actor not found.")
              ELSE Called("sheet.render", res)
    /\ UNCHANGED <<hostVars, hud, doll, hpDomVars, asyncVars, favVars, viewVars, hookVars>>

\* selectToken: click on a party picture.  token.control() makes the host fire
\* controlToken, whose hook renders a GM's HUD anew.
SelectToken(el) ==
    /\ LET found == el.characterId \in tokens /\ el.characterId \in exists
           ctx == IF CharacterGuard(el) # "ok" THEN "noAttr"
                  ELSE IF found THEN "ok" ELSE "noToken"
       IN /\ last' = HandledUi("selectToken", el, ctx)
          /\ out' = IF ctx = "noAttr" THEN Warned("Character not found.")
                    ELSE IF ctx = "ok" THEN Called("token.control", "ok")
                    ELSE Quiet
          /\ IF ctx = "ok"
             THEN /\ controlled' = el.characterId
                  /\ IF isGM /\ controlled # el.characterId
                     THEN RenderCharacter(el.characterId)
                     ELSE UNCHANGED <<domVars, asyncVars>>
             ELSE UNCHANGED <<controlled, domVars, asyncVars>>
    /\ UNCHANGED <<exists, hp, tokens, userChar, isGM, favVars, viewVars, hookVars>>

\* toggleActions
ToggleActions ==
    /\ hud.id # None
    /\ actionsShown' = ~actionsShown
    /\ statsShown' = FALSE
    /\ last' = HandledUi("toggleActions", NoElement, "ok")
    /\ out' = Quiet
    /\ UNCHANGED <<hostVars, hud, doll, hpDomVars, asyncVars, favVars, viewVars, hookVars>>

\* toggleStats
ToggleStats ==
    /\ hud.id # None
    /\ statsShown' = ~statsShown
    /\ actionsShown' = FALSE
    /\ last' = HandledUi("toggleStats", NoElement, "ok")
    /\ out' = Quiet
    /\ UNCHANGED <<hostVars, hud, doll, hpDomVars, asyncVars, favVars, viewVars, hookVars>>

\* contextmenu on the character picture.  `avail`: the host defines
\* ui.paperDoll; without it `new ui.paperDoll(actor)` throws, after the
\* container was created.
ContextMenu(avail) ==
    /\ hud.id # None
    /\ last' = HandledUi("contextmenu", NoElement, IF GetCharacter = None THEN "noActor" ELSE "ok")
    /\ IF GetCharacter = None
       THEN doll' = doll /\ out' = Warned("No character data found.")
       ELSE IF doll = "shown"
       THEN doll' = "hidden" /\ out' = Quiet
       ELSE IF avail
       THEN doll' = "shown" /\ out' = Called("paperDoll.render", "ok")
       ELSE doll' = "hidden" /\ out' = Called("new ui.paperDoll", "throws")
    /\ UNCHANGED <<hostVars, hud, actionsShown, statsShown, hpDomVars, asyncVars, favVars, viewVars, hookVars>>

(***************************************************************************)
(* A click inside an ability of the player HUD.  The save label is nested  *)
(* in the ability element; both click handlers are delegated from the      *)
(* document, which runs them from the clicked element outwards until one   *)
(* of them stops the propagation.                                          *)
(***************************************************************************)
\* The elements of one ability a click can land on
AbilityTargets == {"save", "name", "mod", "ability"}

\* The classes from the clicked element up to the ability element
Path(target) ==
    CASE target = "save" -> <<"save", "ability">>
      [] target = "ability" -> <<"ability">>
      [] OTHER -> <<target, "ability-wrapper", "ability">>

\* $(document).on("click", "#player-character .save", ...) and
\* $(document).on("click", "#player-character .ability", ...)
ClickHandler(class) ==
    CASE class = "save" -> "rollSave"
      [] class = "ability" -> "rollAbility"
      [] OTHER -> "none"

StopsPropagation_Never(h) == FALSE

\* e.stopPropagation(): rollSave calls it, rollAbility does not
StopsPropagation(h) == h = "rollSave"

\* The handlers a click runs, innermost first
RECURSIVE Dispatch(_, _)
Dispatch(path, i) ==
    IF i > Len(path) THEN <<>>
    ELSE IF ClickHandler(path[i]) = "none" THEN Dispatch(path, i + 1)
    ELSE IF StopsPropagation(ClickHandler(path[i])) THEN <<ClickHandler(path[i])>>
    ELSE <<ClickHandler(path[i])>> \o Dispatch(path, i + 1)

\* await actor.rollSavingThrow(...) / await actor.rollAbilityCheck(...)
RollApi(h) == IF h = "rollSave" THEN "rollSavingThrow" ELSE "rollAbilityCheck"

\* The calls a step has made so far, in order
Then(calls, f) == IF calls = "" THEN f ELSE calls \o ", " \o f

\* The calls of a sequence of handlers, in order
RECURSIVE Joined(_)
Joined(calls) ==
    IF calls = <<>> THEN "" ELSE Then(Joined(SubSeq(calls, 1, Len(calls) - 1)), calls[Len(calls)])

\* The ability element of the rendered template: data-ability is the key of
\* the ability, data-character-id the id the HUD was rendered for.
AbilityElement == [anc |-> TRUE, characterId |-> hud.id, key |-> "k"]

\* A click on `target` inside an ability.  Every handler it runs resolves
\* e.currentTarget.closest("[data-character-id]") to the ability element,
\* closes the panels and runs the same guards.
ClickInAbility(target, res) ==
    /\ hud.id # None
    /\ ClosePanels
    /\ last' = [HandledUi("click", AbilityElement, RollGuard(AbilityElement))
                  EXCEPT !.target = target,
                         !.cap = Joined(Dispatch(Path(target), 1))]
    /\ out' = IF RollGuard(AbilityElement) # "ok"
              THEN Warned(WarnText(RollGuard(AbilityElement)))
              ELSE Called(Joined([i \in DOMAIN Dispatch(Path(target), 1) |->
                                      RollApi(Dispatch(Path(target), 1)[i])]), res)
    /\ UNCHANGED <<hostVars, hud, doll, hpDomVars, asyncVars, favVars, viewVars, hookVars>>

(***************************************************************************)
(* The Favorites Resolver: getActions of character.js.                     *)
(***************************************************************************)
\* Item documents of the actor.  `dataType`: the type read through the `data`
\* accessor of older hosts, which mirrors the document; "" where the host has
\* no such accessor.
NoDoc == [id |-> "", name |-> "", img |-> "", type |-> "", dataType |-> ""]

Docs ==
    {[id |-> "w1", name |-> "Dagger", img |-> "dagger.webp", type |-> "weapon", dataType |-> ""],
     [id |-> "s1", name |-> "Shield", img |-> "shield.webp", type |-> "spell", dataType |-> "spell"],
     [id |-> "f1", name |-> "Rage", img |-> "rage.webp", type |-> "feat", dataType |-> ""],
     [id |-> "e1", name |-> "Rope", img |-> "rope.webp", type |-> "equipment", dataType |-> "equipment"]}

\* fromUuidSync(fav.id, { relative: actor }): a document, null, or a throw
FromUuidSync(uuid) ==
    IF \E doc \in Docs : uuid = <<".Item.", doc.id>>
    THEN [res |-> "doc", doc |-> CHOOSE doc \in Docs : uuid = <<".Item.", doc.id>>]
    ELSE IF uuid = <<".Item.", "x9">>
    THEN [res |-> "null", doc |-> NoDoc]
    ELSE [res |-> "throws", doc |-> NoDoc]

\* The stored favorites: the id may be absent, the sort key may be absent.
NoUuid == <<>>
Uuids == {NoUuid, <<"??">>, <<".Item.", "x9">>} \cup {<<".Item.", doc.id>> : doc \in Docs}
NoSort == [has |-> FALSE, n |-> 0]
SortKeys == {NoSort} \cup [has : {TRUE}, n : {0, 1, 2}]
Favs == [id : Uuids, sort : SortKeys]

\* itemDoc.data?.type || itemDoc.type
ItemType(doc) == IF doc.dataType # "" THEN doc.dataType ELSE doc.type

AllowedTypes_WithEquipment == {"spell", "consumable", "weapon", "feat", "equipment"}

AllowedTypes == {"spell", "consumable", "weapon", "feat"}

\* fav.sort || 0
SortOf(fav) == IF fav.sort.has /\ fav.sort.n # 0 THEN fav.sort.n ELSE 0

OnThrow_DropsResult(acc) == <<>>

\* catch (err) { console.error(...) }: inside the loop, which goes on
OnThrow(acc) == acc

\* One turn of the loop over the favorites
Resolve(acc, fav) ==
    IF fav.id = NoUuid THEN acc
    ELSE LET found == FromUuidSync(fav.id) IN
         IF found.res = "throws" THEN OnThrow(acc)
         ELSE IF found.res = "null" THEN acc
         ELSE IF ItemType(found.doc) \notin AllowedTypes THEN acc
         ELSE Append(acc, [id |-> found.doc.id, name |-> found.doc.name,
                           img |-> found.doc.img, sort |-> SortOf(fav)])

RECURSIVE ResolveAll(_, _)
ResolveAll(acc, favs) ==
    IF favs = <<>> THEN acc ELSE ResolveAll(Resolve(acc, Head(favs)), Tail(favs))

Insert_BeforeEqualKeys(sorted, x) ==
    LET before == {i \in DOMAIN sorted : sorted[i].sort < x.sort}
    IN SubSeq(sorted, 1, Cardinality(before)) \o <<x>>
           \o SubSeq(sorted, Cardinality(before) + 1, Len(sorted))

\* actions.sort((a, b) => a.sort - b.sort): stable
RECURSIVE Insert(_, _)
Insert(sorted, x) ==
    IF sorted = <<>> THEN <<x>>
    ELSE IF sorted[Len(sorted)].sort - x.sort > 0
    THEN Append(Insert(SubSeq(sorted, 1, Len(sorted) - 1), x), sorted[Len(sorted)])
    ELSE Append(sorted, x)

RECURSIVE SortBySort(_)
SortBySort(list) ==
    IF list = <<>> THEN <<>>
    ELSE Insert(SortBySort(SubSeq(list, 1, Len(list) - 1)), list[Len(list)])

GetActions(favs) == SortBySort(ResolveAll(<<>>, favs))

\* characterData calls getActions(actor)
GetActionsCall ==
    /\ last.h # "getActions"
    /\ actions' = GetActions(favorites)
    /\ last' = [NoHandler EXCEPT !.h = "getActions"]
    /\ out' = Quiet
    /\ UNCHANGED <<hostVars, domVars, asyncVars, favorites, viewVars, hookVars>>

(***************************************************************************)
(* JavaScript values read off the actor record.                            *)
(***************************************************************************)
\* undefined, a number, NaN, Infinity, a string, or an object with at most
\* the one field the code reads (`f`: that field is present, `n`: its number)
Undefined == [t |-> "undefined", n |-> 0, s |-> "", f |-> FALSE]
Number(n) == [t |-> "number", n |-> n, s |-> "", f |-> FALSE]
NotANumber == [t |-> "NaN", n |-> 0, s |-> "", f |-> FALSE]
Infinity == [t |-> "Infinity", n |-> 0, s |-> "", f |-> FALSE]
Str(s) == [t |-> "string", n |-> 0, s |-> s, f |-> FALSE]
ObjectWith(n) == [t |-> "object", n |-> n, s |-> "", f |-> TRUE]
ObjectWithout == [t |-> "object", n |-> 0, s |-> "", f |-> FALSE]

\* Truthiness, and a || b
Truthy(v) ==
    \/ v.t \in {"object", "Infinity"}
    \/ v.t = "number" /\ v.n # 0
    \/ v.t = "string" /\ v.s # ""

Or(a, b) == IF Truthy(a) THEN a ELSE b

\* obj?.field for the one field of an object; undefined on anything else
Field(v) == IF v.t = "object" /\ v.f THEN Number(v.n) ELSE Undefined

\* No actor: characterData(undefined)
NoActor ==
    [present |-> FALSE, id |-> "", name |-> "", img |-> "",
     level |-> Undefined, race |-> Undefined, class |-> Undefined, walk |-> Undefined,
     init |-> Undefined, ac |-> Undefined, hpValue |-> Undefined, hpMax |-> Undefined]

(***************************************************************************)
(* Double-precision arithmetic of value / max * 100.                       *)
(*                                                                         *)
(* A positive double is [w, e]: its 53-bit significand is a leading 1      *)
(* followed by the four 13-bit limbs w[1] (most significant) to w[4], read *)
(* as a binary fraction in [1/2, 1), and its value is that fraction times  *)
(* 2^e.  Division and multiplication round to nearest, ties to even.       *)
(***************************************************************************)
LimbBits == 13

RECURSIVE Pow2(_)
Pow2(n) == IF n = 0 THEN 1 ELSE 2 * Pow2(n - 1)

Limb == Pow2(LimbBits)

\* a / b = (a' / b') * 2^sh with 1/2 <= a' / b' < 1
RECURSIVE Normalise(_, _, _)
Normalise(a, b, sh) ==
    IF a >= b THEN Normalise(a, 2 * b, sh + 1)
    ELSE IF 2 * a < b THEN Normalise(2 * a, b, sh - 1)
    ELSE [a |-> a, b |-> b, sh |-> sh]

\* The significand plus one unit in the last place
Successor(w, e) ==
    IF w[4] + 1 < Limb THEN [w |-> <<w[1], w[2], w[3], w[4] + 1>>, e |-> e]
    ELSE IF w[3] + 1 < Limb THEN [w |-> <<w[1], w[2], w[3] + 1, 0>>, e |-> e]
    ELSE IF w[2] + 1 < Limb THEN [w |-> <<w[1], w[2] + 1, 0, 0>>, e |-> e]
    ELSE IF w[1] + 1 < Limb THEN [w |-> <<w[1] + 1, 0, 0, 0>>, e |-> e]
    ELSE [w |-> <<0, 0, 0, 0>>, e |-> e + 1]

\* Round to nearest, ties to even: `w` are the kept bits, `guard` the first
\* dropped bit, `sticky` whether a later dropped bit is set.
Round(w, e, guard, sticky) ==
    IF guard = 1 /\ (sticky \/ w[4] % 2 = 1) THEN Successor(w, e) ELSE [w |-> w, e |-> e]

\* a / b for positive integers: long division, one limb at a time
Divide(a, b) ==
    LET nz == Normalise(a, b, 0)
        r0 == 2 * nz.a - nz.b
        r1 == (r0 * Limb) % nz.b
        r2 == (r1 * Limb) % nz.b
        r3 == (r2 * Limb) % nz.b
        r4 == (r3 * Limb) % nz.b
        guard == IF 2 * r4 >= nz.b THEN 1 ELSE 0
    IN Round(<<(r0 * Limb) \div nz.b, (r1 * Limb) \div nz.b,
               (r2 * Limb) \div nz.b, (r3 * Limb) \div nz.b>>,
             nz.sh, guard, 2 * r4 - guard * nz.b > 0)

\* d * 100: the exact product has 6 or 7 bits more than a significand holds
TimesHundred(d) ==
    LET p4 == d.w[4] * 100
        p3 == d.w[3] * 100 + p4 \div Limb
        p2 == d.w[2] * 100 + p3 \div Limb
        p1 == d.w[1] * 100 + p2 \div Limb
        top == 100 + p1 \div Limb
        k == IF top >= 128 THEN 7 ELSE 6
        K == Pow2(k)
        up == Limb \div K
        dropped == (p4 % Limb) % K
    IN Round(<<(top % K) * up + (p1 % Limb) \div K,
               ((p1 % Limb) % K) * up + (p2 % Limb) \div K,
               ((p2 % Limb) % K) * up + (p3 % Limb) \div K,
               ((p3 % Limb) % K) * up + (p4 % Limb) \div K>>,
             d.e + k, dropped \div (K \div 2), dropped % (K \div 2) > 0)

\* Math.floor(d), for d < 2^(LimbBits + 1)
Floor(d) == IF d.e <= 0 THEN 0 ELSE (Limb + d.w[1]) \div Pow2(LimbBits + 1 - d.e)

\* d > 0.5
AboveHalf(d) == d.e > 0 \/ (d.e = 0 /\ d.w # <<0, 0, 0, 0>>)

(***************************************************************************)
(* The Display-Model Builder: characterData of character.js.               *)
(***************************************************************************)
\* value / max of two JavaScript values: undefined makes it NaN, a zero max
\* NaN for 0 / 0 and Infinity otherwise; `d` is the quotient where it is a
\* positive double.
Ratio(value, max) ==
    IF value.t # "number" \/ max.t # "number" THEN "NaN"
    ELSE IF max.n = 0 THEN (IF value.n = 0 THEN "NaN" ELSE "Infinity")
    ELSE IF value.n = 0 THEN "zero"
    ELSE "positive"

\* Math.floor((value / max) * 100)
HpPercent(value, max) ==
    CASE Ratio(value, max) = "NaN" -> NotANumber
      [] Ratio(value, max) = "Infinity" -> Infinity
      [] Ratio(value, max) = "zero" -> Number(0)
      [] OTHER -> Number(Floor(TimesHundred(Divide(value.n, max.n))))

\* (value / max) > 0.5 ? "healthy" : "injured"
HpStatus(value, max) ==
    IF \/ Ratio(value, max) = "Infinity"
       \/ Ratio(value, max) = "positive" /\ AboveHalf(Divide(value.n, max.n))
    THEN "healthy" ELSE "injured"

\* (typeof init === "object" && init.total !== undefined) ? init.total : init || 0
Initiative(init) ==
    IF init.t = "object" /\ Field(init).t # "undefined" THEN Field(init)
    ELSE Or(init, Number(0))

\* ac?.value || ac || ""
Armor(ac) == Or(Or(Field(ac), ac), Str(""))

\* return {}
EmptyView ==
    [empty |-> TRUE, id |-> "", isCharacter |-> FALSE, name |-> "", picture |-> "",
     level |-> Undefined, race |-> Undefined, class |-> Undefined, speed |-> Undefined,
     ini |-> Undefined, armor |-> Undefined,
     hp |-> [value |-> Undefined, max |-> Undefined, percent |-> Undefined, status |-> ""],
     actions |-> <<>>]

\* characterData(actor) for an actor whose stored favorites are `favs`
CharacterDataOf(a, favs) ==
    IF ~a.present THEN EmptyView
    ELSE [empty |-> FALSE,
          id |-> a.id,
          isCharacter |-> TRUE,
          name |-> a.name,
          picture |-> a.img,
          level |-> Or(a.level, Number(1)),
          race |-> Or(a.race, Str("")),
          class |-> Or(a.class, Str("")),
          speed |-> Or(a.walk, Number(0)),
          ini |-> Initiative(a.init),
          armor |-> Armor(a.ac),
          hp |-> [value |-> a.hpValue,
                  max |-> a.hpMax,
                  percent |-> HpPercent(a.hpValue, a.hpMax),
                  status |-> HpStatus(a.hpValue, a.hpMax)],
          actions |-> GetActions(favs)]

FavoritesAfter_SortedInPlace(favs) ==
    LET keyed == [i \in DOMAIN favs |-> [fav |-> favs[i], sort |-> SortOf(favs[i])]]
        sorted == SortBySort(keyed)
    IN [i \in DOMAIN sorted |-> sorted[i].fav]

\* actor.system.favorites after the call: getActions sorts the array it
\* built, not the stored one
FavoritesAfter(favs) == favs

\* A call of characterData on the actor
CharacterDataCall ==
    /\ Len(views) < MaxCalls
    /\ views' = Append(views, CharacterDataOf(actor, favorites))
    /\ favorites' = FavoritesAfter(favorites)
    /\ last' = [NoHandler EXCEPT !.h = "characterData"]
    /\ out' = Quiet
    /\ UNCHANGED <<hostVars, domVars, asyncVars, actions, actorTypes, partyOnlyActive, roster, actor,
                   hookVars>>

\* The actor records the builder is run on
HpSamples == {Undefined} \cup {Number(n) : n \in {0, 5, 10, 29, 50}}
InitSamples == {Undefined, Number(0), Number(3), ObjectWith(2), ObjectWith(0), ObjectWithout}
AcSamples == {Undefined, Number(0), Number(15), ObjectWith(15), ObjectWith(0), ObjectWithout}
DetailSamples ==
    {[level |-> Undefined, race |-> Undefined, class |-> Undefined, walk |-> Undefined],
     [level |-> Number(0), race |-> Str(""), class |-> Str(""), walk |-> Number(0)],
     [level |-> Number(5), race |-> Str("Elf"), class |-> Str("Wizard"), walk |-> Number(30)]}

Actors ==
    {NoActor} \cup
    {[present |-> TRUE, id |-> "a1", name |-> "Barbarian", img |-> "barbarian.webp",
      level |-> d.level, race |-> d.race, class |-> d.class, walk |-> d.walk,
      init |-> i, ac |-> c, hpValue |-> v, hpMax |-> m] :
        d \in DetailSamples, i \in InitSamples, c \in AcSamples, v \in HpSamples, m \in HpSamples}

FavoriteLists ==
    {<<>>,
     <<[id |-> <<".Item.", "w1">>, sort |-> [has |-> TRUE, n |-> 2]],
       [id |-> <<".Item.", "f1">>, sort |-> [has |-> TRUE, n |-> 1]]>>}

(***************************************************************************)
(* The party roster: getPartyCharacters of character.js.                   *)
(***************************************************************************)
ActorTypes == {"character", "npc"}

\* The namespace the settings were registered under by the init hook, and
\* the one a definition of getPartyCharacters reads: "fancy-hud-5e" in
\* scripts/main.js and the first definition, "fancy-ui-5e" in the older
\* main script and the second definition.
Namespaces == {"fancy-hud-5e", "fancy-ui-5e"}

\* actors.filter(actor => canvas.tokens.placeables.some(t => t.actor?.id === actor.id))
ActiveActors_AnyToken(actors) == IF tokens # {} THEN actors ELSE {}

ActiveActors(actors) == {a \in actors : a \in tokens}

\* getPartyCharacters, after the setting was read
GetPartyCharacters ==
    LET actors == {a \in exists : actorTypes[a] = "character"}
    IN IF partyOnlyActive THEN ActiveActors(actors) ELSE actors

\* A call of the definition reading namespace `ns`, in a world whose init
\* hook registered the settings under `registered`: game.settings.get throws
\* for a setting that was never registered.
GetPartyCharactersCall(ns, registered) ==
    /\ last.h # "getPartyCharacters"
    /\ last' = [NoHandler EXCEPT !.h = "getPartyCharacters",
                                 !.ctx = IF ns = registered THEN "ok" ELSE "unregistered"]
    /\ IF ns = registered
       THEN roster' = GetPartyCharacters /\ out' = Quiet
       ELSE roster' = roster /\ out' = [Quiet EXCEPT !.uncaught = TRUE]
    /\ UNCHANGED <<hostVars, domVars, asyncVars, favVars, actorTypes, partyOnlyActive, actor, views,
                   hookVars>>

(***************************************************************************)
(* The hook subscriptions and the two containers: main.js.                 *)
(***************************************************************************)
\* The namespace the init hook of scripts/main.js registers both settings in
Registered == "fancy-hud-5e"

\* A suspended handler: where it waits (the one-second timeout, renderTemplate
\* of the character, renderTemplate of the party), what it does next
\* ("renderParty" in the handlers that render both, else "return"), the
\* view-model it built and, for a character render, whether the element it
\* captured has been removed from the page since.
Task(at, next, data, characters) ==
    [at |-> at, next |-> next, data |-> data, characters |-> characters, stale |-> FALSE]

Without(q, i) == [j \in 1..(Len(q) - 1) |-> IF j < i THEN q[j] ELSE q[j + 1]]

\* elem.remove(): every suspended renderCharacter holds a removed element
Removed(q) ==
    [j \in DOMAIN q |-> IF q[j].at = "character" THEN [q[j] EXCEPT !.stale = TRUE] ELSE q[j]]

\* What a handler has done to the page so far in the step it runs in, with
\* the handlers `q` suspended beside it.
Running(q) ==
    [hud |-> hud, wrote |-> FALSE, party |-> party, tasks |-> q, calls |-> "", threw |-> FALSE]

\* renderCharacter() from its first line to its return or its await, in a
\* handler that goes on with `next`, where getCharacter() returns `c` and the
\* actors' hit points are `h`.
StartCharacter(m, next, c, h) ==
    IF c = None
    THEN [m EXCEPT !.hud = EmptyHud, !.wrote = TRUE, !.tasks = Removed(@),
                   !.calls = Then(@, "renderCharacter")]
    ELSE [m EXCEPT !.tasks = Append(@, Task("character", next, [id |-> c, hp |-> h[c]], {})),
                   !.calls = Then(@, "renderCharacter, renderTemplate")]

\* A renderParty that ignores the setting.
Suppressed_Never(disabled) == FALSE

\* if (disablePartyHud) { elem.innerHTML = ""; return; }
Suppressed(disabled) == disabled

\* renderParty() likewise, by the definition of getPartyCharacters that
\* reads namespace `ns`.
StartParty(m, ns, h) ==
    IF Suppressed(disablePartyHud)
    THEN [m EXCEPT !.party = {}, !.calls = Then(@, "renderParty")]
    ELSE IF ns # Registered
    THEN [m EXCEPT !.calls = Then(@, "renderParty, getPartyCharacters"), !.threw = TRUE]
    ELSE [m EXCEPT !.tasks = Append(@, Task("party", "return", EmptyHud,
                                  {[id |-> a, hp |-> h[a]] : a \in GetPartyCharacters})),
                   !.calls = Then(@, "renderParty, getPartyCharacters, renderTemplate")]

\* A completed renderTemplate writes a render that is superseded, too.
Writes_OnlyNewest(q, i) == ~q[i].stale /\ i = Len(q)

\* elem.innerHTML = tpl shows on the page unless `elem` was removed from it
Writes(q, i) == ~q[i].stale

\* The page and the suspended handlers after the step
Settle(m) ==
    /\ Len(m.tasks) <= MaxTasks
    /\ hud' = m.hud
    /\ party' = m.party
    /\ tasks' = m.tasks
    /\ out' = [warn |-> "", call |-> m.calls, uncaught |-> m.threw]
    /\ IF m.wrote
       THEN /\ actionsShown' = FALSE
            /\ statsShown' = FALSE
            /\ doll' = "absent"
            /\ fieldValue' = IF m.hud.id = None THEN <<>> ELSE ToString(m.hud.hp)
            /\ datasetValue' = m.hud.hp
            /\ focused' = FALSE
       ELSE UNCHANGED <<actionsShown, statsShown, doll, hpDomVars>>

\* A hook handler ran: its name and the actor of its event
HandledHook(h, a, ctx) == [NoHandler EXCEPT !.h = h, !.el.characterId = a, !.ctx = ctx]

hookFrame == <<pendingUpdates, renders, favVars, actorTypes, partyOnlyActive, roster, actor,
               views, disablePartyHud, canvasTokens, resolved>>

\* renderApplication hook: renderCharacter, then renderParty
OnRenderApplication(ns) ==
    /\ LET m == StartCharacter(Running(tasks), "renderParty", GetCharacter, hp)
       IN Settle(IF GetCharacter = None THEN StartParty(m, ns, hp) ELSE m)
    /\ last' = HandledHook("renderApplication", "", "ok")
    /\ UNCHANGED <<hostVars, hookFrame>>

\* A handler that renders the character for every updated actor.
IsCurrent_Always(a, c) == TRUE

\* actor.id === getCharacter()?.id
IsCurrent(a, c) == c # None /\ a = c

\* The host applies an update of actor `a` that leaves its hit points at `v`.
\* updateActor hook: renderCharacter when the actor is the current character,
\* then renderParty.
OnUpdateActor(a, v, ns) ==
    /\ a \in exists
    /\ hp' = [hp EXCEPT ![a] = v]
    /\ Settle(IF IsCurrent(a, GetCharacter)
              THEN StartCharacter(Running(tasks), "renderParty", GetCharacter, hp')
              ELSE StartParty(Running(tasks), ns, hp'))
    /\ last' = HandledHook("updateActor", a, "ok")
    /\ UNCHANGED <<exists, tokens, controlled, userChar, isGM, hookFrame>>

\* The host applies an update of an item of actor `a`.  updateItem hook: a
\* render of the character one second later, when the actor is the current
\* character.
OnUpdateItem(a) ==
    /\ a \in exists
    /\ Settle(IF IsCurrent(a, GetCharacter)
              THEN [Running(Append(tasks, Task("timeout", "return", EmptyHud, {})))
                       EXCEPT !.calls = "setTimeout"]
              ELSE Running(tasks))
    /\ last' = HandledHook("updateItem", "", "ok")
    /\ UNCHANGED <<hostVars, hookFrame>>

\* The timeout of an updateItem handler expires: renderCharacter
TimeoutFires(i) ==
    /\ i \in DOMAIN tasks
    /\ tasks[i].at = "timeout"
    /\ Settle(StartCharacter(Running(Without(tasks, i)), "return", GetCharacter, hp))
    /\ last' = HandledHook("timeout", "", "ok")
    /\ UNCHANGED <<hostVars, hookFrame>>

\* Token hooks that render for every user.
MayRender_AnyUser(gm) == TRUE

\* if (!isGm()) return;
MayRender(gm) == gm

\* The user controls a token on the canvas or releases the controlled one.
\* controlToken hook: renderCharacter for a GM.
OnControlToken(c) ==
    /\ c \in tokens \cup {None}
    /\ c # controlled
    /\ controlled' = c
    /\ Settle(IF MayRender(isGM)
              THEN StartCharacter(Running(tasks), "return", GetCharacterOf(c), hp)
              ELSE Running(tasks))
    /\ last' = HandledHook("controlToken", "", "ok")
    /\ UNCHANGED <<exists, hp, tokens, userChar, isGM, hookFrame>>

\* A token is deleted from the canvas.  deleteToken hook: as controlToken.
OnDeleteToken(a) ==
    /\ a \in tokens
    /\ tokens' = tokens \ {a}
    /\ controlled' = IF controlled = a THEN None ELSE controlled
    /\ Settle(IF MayRender(isGM)
              THEN StartCharacter(Running(tasks), "return",
                                  GetCharacterOf(IF controlled = a THEN None ELSE controlled), hp)
              ELSE Running(tasks))
    /\ last' = HandledHook("deleteToken", "", "ok")
    /\ UNCHANGED <<exists, hp, userChar, isGM, hookFrame>>

\* renderTemplate resolves for the suspended handler `i`: the markup is
\* written into the element the render captured, and the handler goes on:
\* after the character, the renderApplication and updateActor handlers
\* render the party.
TemplateRendered(i, ns) ==
    /\ i \in DOMAIN tasks
    /\ tasks[i].at # "timeout"
    /\ LET t == tasks[i]
           m == Running(Without(tasks, i))
           written == IF Writes(tasks, i) THEN [m EXCEPT !.hud = t.data, !.wrote = TRUE] ELSE m
       IN /\ Settle(IF t.at = "party" THEN [m EXCEPT !.party = t.characters]
                    ELSE IF t.next = "renderParty"
                    THEN StartParty(written, ns, hp)
                    ELSE written)
          /\ last' = HandledHook("templateRendered", "",
                                 IF t.at = "party" THEN "party"
                                 ELSE IF t.stale THEN "removed" ELSE "character")
    /\ UNCHANGED <<hostVars, hookFrame>>

(***************************************************************************)
(* getCharacter of character.js, on the tokens as the host hands them out. *)
(***************************************************************************)
\* A controlled token: its `actor` (None when the token yields none), whether
\* it has a `document`, and the document's actorId.
TokenShapes == [actor : ActorIds \cup {None}, document : BOOLEAN, actorId : ActorIds \cup {None}]

\* game.actors.get(id)
GameActorsGet(id) == IF id \in exists THEN id ELSE None

\* A getCharacter that looks at the token controlled last.
ControlledToken_Last(list) == list[Len(list)]

\* controlled[0]
ControlledToken(list) == list[1]

\* getCharacter(): canvas.tokens?.controlled || [], the actor of the first
\* controlled token, looked up through its document when the token has none,
\* else game.user.character || undefined.
GetCharacterFrom(canvas, user) ==
    LET list == IF canvas.layer THEN canvas.controlled ELSE <<>>
        token == ControlledToken(list)
        found == IF token.actor = None /\ token.document
                 THEN GameActorsGet(token.actorId)
                 ELSE token.actor
    IN IF Len(list) > 0 /\ found # None THEN found ELSE user

GetCharacterCall ==
    /\ last.h # "getCharacter"
    /\ resolved' = GetCharacterFrom(canvasTokens, userChar)
    /\ last' = [NoHandler EXCEPT !.h = "getCharacter"]
    /\ out' = Quiet
    /\ UNCHANGED <<hostVars, domVars, asyncVars, favVars, viewVars,
                   disablePartyHud, party, tasks, canvasTokens>>

\* The first controlled token is released.
ReleaseToken ==
    /\ canvasTokens.layer
    /\ canvasTokens.controlled # <<>>
    /\ canvasTokens' = [canvasTokens EXCEPT !.controlled = Tail(@)]
    /\ last' = NoHandler
    /\ out' = Quiet
    /\ UNCHANGED <<hostVars, domVars, asyncVars, favVars, viewVars,
                   disablePartyHud, party, tasks, resolved>>

(***************************************************************************)
(* Initial states.                                                         *)
(***************************************************************************)
InitHost ==
    /\ exists = ActorIds
    /\ hp = [a \in ActorIds |-> Num(10)]
    /\ tokens = ActorIds
    /\ controlled = None
    /\ userChar = "a1"
    /\ isGM \in BOOLEAN

\* After the ready hook's renderCharacter() completed for the user's character.
InitDom ==
    /\ hud = [id |-> "a1", hp |-> Num(10)]
    /\ actionsShown = FALSE
    /\ statsShown = FALSE
    /\ doll = "absent"
    /\ fieldValue = ToString(Num(10))
    /\ datasetValue = Num(10)
    /\ focused = FALSE

InitAsync ==
    /\ pendingUpdates = <<>>
    /\ renders = <<>>
    /\ last = NoHandler
    /\ out = Quiet

InitFavIdle ==
    /\ favorites = <<>>
    /\ actions = <<>>

\* Every actor a character, the settings at their defaults, nothing built yet.
InitPartyIdle ==
    /\ actorTypes = [a \in ActorIds |-> "character"]
    /\ partyOnlyActive = FALSE
    /\ roster = {}

InitViewIdle ==
    /\ actor = NoActor
    /\ views = <<>>

\* The party HUD enabled and rendered for the two characters, no handler
\* suspended, getCharacter not called.
InitHookIdle ==
    /\ disablePartyHud = FALSE
    /\ party = {[id |-> a, hp |-> Num(10)] : a \in ActorIds}
    /\ tasks = <<>>
    /\ canvasTokens = [layer |-> TRUE, controlled |-> <<>>]
    /\ resolved = None

\* The HP editor does not read the user's role.
InitHp ==
    /\ InitHost /\ InitDom /\ InitAsync /\ InitFavIdle /\ InitPartyIdle /\ InitViewIdle
    /\ InitHookIdle /\ ~isGM

\* After the ready hook, for a GM or a player.
Init ==
    /\ InitHost /\ InitDom /\ InitAsync /\ InitFavIdle /\ InitPartyIdle /\ InitViewIdle
    /\ InitHookIdle

NextHp ==
    \/ Focus
    \/ \E c \in Alphabet : TypeChar(c)
    \/ Blur
    \/ EnterKey
    \/ HostApplyUpdate
    \/ HostRejectUpdate
    \/ \E i \in 1..MaxRenders : RenderDone(i)
    \/ DeleteActor(hud.id)

SpecHp == InitHp /\ [][NextHp]_vars

\* The gestures on the hit-points fields of both containers and on the party
\* pictures, with one digit to type.
NextGestures ==
    \/ Focus
    \/ TypeChar("5")
    \/ Blur
    \/ EnterKey
    \/ HostApplyUpdate
    \/ \E i \in 1..MaxRenders : RenderDone(i)
    \/ \E a \in ActorIds, ev \in FieldEvents : PartyFieldGesture(a, ev)
    \/ \E el \in PartyElements, res \in Results : OpenSheet(el, res)
    \/ \E el \in PartyElements : SelectToken(el)

SpecGestures == Init /\ [][NextGestures]_vars

\* The editor with deltas typed and Enter pressed again while an update
\* request is in flight.
NextDeltas ==
    \/ Focus
    \/ \E c \in {"+", "-", "5"} : TypeChar(c)
    \/ Blur
    \/ EnterKeyUpTo(MaxOverlapping)
    \/ HostApplyUpdate
    \/ \E i \in 1..MaxRenders : RenderDone(i)

SpecDeltas == InitHp /\ [][NextDeltas]_vars

Next ==
    \/ \E el \in PlayerElements({"k"}), res \in Results : RollAbility(el, res)
    \/ \E el \in PlayerElements({"k"}), v2 \in BOOLEAN, res \in Results : RollSkill(el, v2, res)
    \/ \E el \in PlayerElements({"k"}), res \in Results : RollSave(el, res)
    \/ \E el \in PlayerElements(ItemIds \cup {"gone"}), res \in Results : RollAction(el, res)
    \/ \E el \in PartyElements, res \in Results : OpenSheet(el, res)
    \/ \E el \in PartyElements : SelectToken(el)
    \/ ToggleActions
    \/ ToggleStats
    \/ \E avail \in BOOLEAN : ContextMenu(avail)
    \/ RenderApplicationHook
    \/ \E c \in ActorIds \cup {None} : ControlToken(c)
    \/ \E a \in ActorIds : DeleteToken(a)
    \/ \E a \in ActorIds : DeleteActor(a)
    \/ \E i \in 1..MaxRenders : RenderDone(i)

Spec == Init /\ [][Next]_vars

NextClicks ==
    \/ \E target \in AbilityTargets, res \in Results : ClickInAbility(target, res)
    \/ ToggleActions
    \/ ToggleStats
    \/ RenderApplicationHook
    \/ \E c \in ActorIds \cup {None} : ControlToken(c)
    \/ \E a \in ActorIds : DeleteActor(a)
    \/ \E i \in 1..MaxRenders : RenderDone(i)

SpecClicks == Init /\ [][NextClicks]_vars

\* Every favorites list of at most MaxFavs entries
RECURSIVE SeqsUpTo(_, _)
SeqsUpTo(S, n) ==
    IF n = 0 THEN {<<>>}
    ELSE SeqsUpTo(S, n - 1) \cup {Append(q, x) : q \in {r \in SeqsUpTo(S, n - 1) : Len(r) = n - 1}, x \in S}

InitFav ==
    /\ InitHost /\ InitDom /\ InitAsync /\ InitPartyIdle /\ InitViewIdle /\ InitHookIdle /\ ~isGM
    /\ favorites \in SeqsUpTo(Favs, MaxFavs)
    /\ actions = <<>>

NextFav == GetActionsCall

SpecFav == InitFav /\ [][NextFav]_vars

\* Every world of at most two actors: which exist, of which type, which have
\* a token, and the setting.
InitParty ==
    /\ exists \in SUBSET ActorIds
    /\ hp = [a \in ActorIds |-> Num(10)]
    /\ tokens \in SUBSET ActorIds
    /\ controlled = None
    /\ userChar = "a1"
    /\ isGM = FALSE
    /\ InitDom /\ InitAsync /\ InitFavIdle /\ InitViewIdle /\ InitHookIdle
    /\ actorTypes \in [ActorIds -> ActorTypes]
    /\ partyOnlyActive \in BOOLEAN
    /\ roster = {}

NextParty == \E ns \in Namespaces, registered \in Namespaces : GetPartyCharactersCall(ns, registered)

SpecParty == InitParty /\ [][NextParty]_vars

\* Every sampled actor record, with and without favorites
InitView ==
    /\ InitHost /\ InitDom /\ InitAsync /\ InitPartyIdle /\ InitHookIdle /\ ~isGM
    /\ favorites \in FavoriteLists
    /\ actions = <<>>
    /\ actor \in Actors
    /\ views = <<>>

NextView == CharacterDataCall

SpecView == InitView /\ [][NextView]_vars

\* Every canvas of at most MaxControlled controlled tokens, ready or not,
\* every assigned character, the actors existing or deleted.
InitChar ==
    /\ exists \in SUBSET ActorIds
    /\ hp = [a \in ActorIds |-> Num(10)]
    /\ tokens = ActorIds
    /\ controlled = None
    /\ userChar \in ActorIds \cup {None}
    /\ isGM = FALSE
    /\ InitDom /\ InitAsync /\ InitFavIdle /\ InitPartyIdle /\ InitViewIdle
    /\ disablePartyHud = FALSE
    /\ party = {}
    /\ tasks = <<>>
    /\ canvasTokens \in [layer : BOOLEAN, controlled : SeqsUpTo(TokenShapes, MaxControlled)]
    /\ resolved = None

NextChar ==
    \/ GetCharacterCall
    \/ ReleaseToken
    \/ \E a \in ActorIds : DeleteActor(a)

SpecChar == InitChar /\ [][NextChar]_vars

\* Hit points the host's updates leave an actor with: the first actor's
\* change, the second is updated in other fields.
HookHps(a) == IF a = "a1" THEN {Num(9), Num(10)} ELSE {Num(10)}

\* After the ready hook, for a GM or a player, with or without an assigned
\* character, for every value of the two settings; disable-party-hud may
\* have been switched on since the party was rendered.
InitHooks ==
    /\ exists = ActorIds
    /\ hp = [a \in ActorIds |-> Num(10)]
    /\ tokens = ActorIds
    /\ controlled = None
    /\ userChar \in {None, "a1"}
    /\ isGM \in BOOLEAN
    /\ hud = IF userChar = None THEN EmptyHud ELSE [id |-> userChar, hp |-> Num(10)]
    /\ actionsShown = FALSE
    /\ statsShown = FALSE
    /\ doll = "absent"
    /\ fieldValue = IF userChar = None THEN <<>> ELSE ToString(Num(10))
    /\ datasetValue = IF userChar = None THEN Num(0) ELSE Num(10)
    /\ focused = FALSE
    /\ InitAsync /\ InitFavIdle /\ InitViewIdle
    /\ actorTypes = [a \in ActorIds |-> "character"]
    /\ partyOnlyActive \in BOOLEAN
    /\ roster = {}
    /\ disablePartyHud \in BOOLEAN
    /\ party = {[id |-> a, hp |-> Num(10)] : a \in ActorIds}
    /\ tasks = <<>>
    /\ canvasTokens = [layer |-> TRUE, controlled |-> <<>>]
    /\ resolved = None

NextHooks ==
    \/ \E ns \in Namespaces : OnRenderApplication(ns)
    \/ \E a \in ActorIds : \E v \in HookHps(a), ns \in Namespaces : OnUpdateActor(a, v, ns)
    \/ \E a \in ActorIds : OnUpdateItem(a)
    \/ \E i \in 1..MaxTasks : TimeoutFires(i)
    \/ \E c \in ActorIds \cup {None} : OnControlToken(c)
    \/ \E a \in ActorIds : OnDeleteToken(a)
    \/ \E i \in 1..MaxTasks, ns \in Namespaces : TemplateRendered(i, ns)

SpecHooks == InitHooks /\ [][NextHooks]_vars

(***************************************************************************)
(* Properties of the hit-points editor, checked under SpecHp.              *)
(***************************************************************************)
\* The text is blank: nothing but spaces.
BlankText(s) == \A i \in 1..Len(s) : s[i] = " "

\* The text without the blanks around it: its characters from the first to the
\* last that is not a space.
Unpadded(s) ==
    IF BlankText(s) THEN <<>>
    ELSE LET first == CHOOSE i \in 1..Len(s) : s[i] # " " /\ \A j \in 1..(i - 1) : s[j] = " "
             lastc == CHOOSE i \in 1..Len(s) : s[i] # " " /\ \A j \in (i + 1)..Len(s) : s[j] = " "
         IN [k \in 1..(lastc - first + 1) |-> s[first + k - 1]]

\* The text is a decimal number with an optional sign.
NumericText(s) ==
    LET body == IF s # <<>> /\ s[1] \in {"+", "-"} THEN Tail(s) ELSE s
    IN body # <<>> /\ \A i \in 1..Len(body) : body[i] \in {"0", "1", "2", "3", "4", "5", "6", "7", "8", "9"}

RECURSIVE Pow10(_)
Pow10(k) == IF k = 0 THEN 1 ELSE 10 * Pow10(k - 1)

RECURSIVE WeightedSum(_, _)
WeightedSum(body, i) ==
    IF i > Len(body) THEN 0
    ELSE DigitVal(body[i]) * Pow10(Len(body) - i) + WeightedSum(body, i + 1)

\* The signed integer a numeric text denotes.
SignedValue(s) ==
    IF s[1] = "-" THEN 0 - WeightedSum(Tail(s), 1)
    ELSE IF s[1] = "+" THEN WeightedSum(Tail(s), 1)
    ELSE WeightedSum(s, 1)

NoUpdateIssued == Len(pendingUpdates) = last.pre.nPending /\ out.call = "none"

NewestUpdate == pendingUpdates[Len(pendingUpdates)]

\* C1: Enter on a text that is not blank and is not a number issues no update
\* request and leaves the actor's HP as it was.
C1_NonNumericIssuesNoUpdate ==
    (last.h = "enter" /\ ~BlankText(fieldValue) /\ ~NumericText(Unpadded(fieldValue)))
        => (NoUpdateIssued /\ hp[hud.id] = last.pre.cur)

\* C2: Enter on a numeric text issues exactly one update request, for the
\* actor of the field; it carries the HP read when Enter is handled plus the
\* signed number when the text starts with a sign, else the number typed.
C2_EnterValue ==
    (last.h = "enter" /\ last.ctx = "ok" /\ NumericText(Unpadded(fieldValue)))
        => /\ Len(pendingUpdates) = last.pre.nPending + 1
           /\ out.call = "update"
           /\ NewestUpdate.actor = hud.id
           /\ NewestUpdate.value =
                  IF Unpadded(fieldValue)[1] \in {"+", "-"}
                  THEN Add(last.pre.cur, Num(SignedValue(Unpadded(fieldValue))))
                  ELSE Num(SignedValue(Unpadded(fieldValue)))

\* An actor at 10 HP, `+5` typed, Enter: the request in flight carries 15.
C2_Witness ==
    /\ last.h = "enter"
    /\ fieldValue = <<"+", "5">>
    /\ last.pre.cur = Num(10)
    /\ pendingUpdates # <<>>
    /\ NewestUpdate.value = Num(15)

\* C3: Enter on a text that is empty or only spaces issues no update request
\* and leaves the actor's HP as it was.
C3_BlankIssuesNoUpdate ==
    (last.h = "enter" /\ BlankText(fieldValue))
        => (NoUpdateIssued /\ hp[hud.id] = last.pre.cur)

\* Enter was pressed on a field holding only spaces, the actor being there.
C3_Witness ==
    /\ last.h = "enter"
    /\ last.ctx = "ok"
    /\ fieldValue # <<>>
    /\ BlankText(fieldValue)
    /\ pendingUpdates = <<>>

\* C4 as stated: after a blur the field shows the actor's HP value, whatever
\* was typed, and no update request was issued.
C4_BlurAlwaysRepaints ==
    (last.h = "blur") => (fieldValue = ToString(hp[hud.id]) /\ NoUpdateIssued)

\* C4 as amended: a blur never issues an update request; when the actor the
\* field refers to is still there, the field shows its live HP value in place
\* of the typed text; when it is gone, the field keeps the typed text.
C4_BlurRepaintsLiveActor ==
    (last.h = "blur")
        => /\ NoUpdateIssued
           /\ ~focused
           /\ hud.id \in exists => fieldValue = ToString(hp[hud.id])
           /\ hud.id \notin exists => fieldValue = last.pre.field

\* `+5` was typed, the field lost focus, and it shows the actor's 10 HP.
C4_Witness ==
    /\ last.h = "blur"
    /\ last.pre.field = <<"+", "5">>
    /\ hud.id \in exists
    /\ hp[hud.id] = Num(10)
    /\ fieldValue = <<"1", "0">>


(***************************************************************************)
(* The dispatch table and the popovers, checked under Spec.                *)
(***************************************************************************)
RollHandlers == {"rollAbility", "rollSkill", "rollSave", "rollAction"}

\* The context a roll handler needs, read off the clicked element and the
\* host: the ancestor, its two data attributes, the actor and, for
\* rollAction, the item.
MissingRollContext ==
    \/ ~last.el.anc
    \/ last.el.characterId = ""
    \/ last.el.key = ""
    \/ last.el.characterId \notin exists
    \/ last.h = "rollAction" /\ last.el.key \notin ItemIds

\* C5: after rollAbility, rollSkill, rollSave or rollAction ran on an event
\* whose ancestor element, data attribute, actor or item is missing, a warning
\* was surfaced and no host roll, chat or card API was called.
C5_DispatchGuard ==
    (last.h \in RollHandlers /\ MissingRollContext)
        => (out.warn # "" /\ out.call = "none" /\ ~out.uncaught)

\* C5 witness: rollAction ran on an element whose actor exists and whose item
\* does not, and warned.
C5_Witness ==
    /\ last.h = "rollAction"
    /\ last.el.anc
    /\ last.el.characterId \in exists
    /\ last.el.key = "gone"
    /\ out.warn = "Item not found."
    /\ out.call = "none"

\* C6: no exception propagates past a handler, whatever the host API does:
\* no handler ends with an uncaught exception or an unhandled rejection.
C6_NoExceptionEscapes == ~out.uncaught

Popovers == {"actions", "stats", "paperdoll"}

PopoverOpen(p) ==
    CASE p = "actions" -> actionsShown
      [] p = "stats" -> statsShown
      [] OTHER -> doll = "shown"

\* C7: in every reachable state at most one of the popovers (actions panel,
\* stats panel, paper-doll overlay) is open.
C7_AtMostOnePopover == Cardinality({p \in Popovers : PopoverOpen(p)}) <= 1

\* A handler of the dispatch table returned on a missing-context condition.
AbortedOnMissingContext ==
    \/ last.h \in RollHandlers /\ MissingRollContext
    \/ /\ last.h = "openSheet"
       /\ (~last.el.anc \/ last.el.characterId = "" \/ last.el.characterId \notin exists)
    \/ last.h = "selectToken" /\ (~last.el.anc \/ last.el.characterId = "")
    \/ last.h = "contextmenu" /\ GetCharacter = None

ContentIntact ==
    /\ hud = last.pre.hud
    /\ doll = last.pre.doll
    /\ out.call = "none"

\* C8 as stated: after a handler aborted on a missing-context condition the
\* actions panel, the stats panel and the HUD content are as they were before
\* it ran.
C8_AbortLeavesPanelsAndContent ==
    AbortedOnMissingContext
        => (actionsShown = last.pre.actions /\ statsShown = last.pre.stats /\ ContentIntact)

\* C8 amended: after a handler aborted on a missing-context condition the HUD
\* content and the paper-doll are as they were and no host API was called;
\* the roll handlers and openSheet have closed the actions and stats panels,
\* selectToken and the context menu have left them as they were.
C8_AbortClosesPanelsKeepsContent ==
    AbortedOnMissingContext
        => /\ ContentIntact
           /\ IF last.h \in RollHandlers \cup {"openSheet"}
              THEN ~actionsShown /\ ~statsShown
              ELSE actionsShown = last.pre.actions /\ statsShown = last.pre.stats

\* C8 witness: rollSkill aborted on a deleted actor while the stats panel was
\* open; the panel is closed and the HUD content is as it was.
C8_Witness ==
    /\ last.h = "rollSkill"
    /\ last.el.anc /\ last.el.key # "" /\ last.el.characterId # ""
    /\ last.el.characterId \notin exists
    /\ last.pre.stats
    /\ ~statsShown
    /\ hud = last.pre.hud
    /\ out.warn = "Actor not found."


(***************************************************************************)
(* The Favorites Resolver, checked under SpecFav.                          *)
(***************************************************************************)
\* A favorite that fails to resolve: no id, a lookup that finds nothing, a
\* lookup that throws.
FailingFav(fav) ==
    \/ fav.id = <<>>
    \/ FromUuidSync(fav.id).res # "doc"

\* C9: the list getActions produced is the list it produces for the favorites
\* without the entries that have no id, resolve to nothing or make the lookup
\* throw: those are skipped and every other entry is processed.
C9_PartialFailure ==
    last.h = "getActions"
        => actions = GetActions(SelectSeq(favorites, LAMBDA fav : ~FailingFav(fav)))

\* C9 witness: a weapon favorite, then one whose lookup throws, then a feat
\* favorite: both items are listed.
C9_Witness ==
    /\ last.h = "getActions"
    /\ Len(favorites) = 3
    /\ FromUuidSync(favorites[1].id).res = "doc"
    /\ favorites[2].id # <<>>
    /\ FromUuidSync(favorites[2].id).res = "throws"
    /\ FromUuidSync(favorites[3].id).res = "doc"
    /\ Len(actions) = 2

\* A favorite that is to be listed: it has an id, the id resolves to an item
\* and the item's category is on the allow-list.
Listed(fav) ==
    /\ fav.id # <<>>
    /\ FromUuidSync(fav.id).res = "doc"
    /\ FromUuidSync(fav.id).doc.type \in {"spell", "consumable", "weapon", "feat"}

\* The entry of a listed favorite: id, name and img of its item, the
\* favorite's sort key, 0 where it has none.
EntryOf(fav) ==
    LET doc == FromUuidSync(fav.id).doc
    IN [id |-> doc.id, name |-> doc.name, img |-> doc.img,
        sort |-> IF fav.sort.has THEN fav.sort.n ELSE 0]

\* C10: the list getActions produced holds exactly one entry per favorite that
\* has an id, resolves to an item and whose item category is spell,
\* consumable, weapon or feat; each entry is {id, name, img, sort} of that item
\* and favorite; no item of another category is listed.
C10_Filtering ==
    last.h = "getActions"
        => /\ Len(actions) = Cardinality({i \in DOMAIN favorites : Listed(favorites[i])})
           /\ \A i \in DOMAIN favorites :
                Listed(favorites[i])
                    => Cardinality({j \in DOMAIN actions : actions[j] = EntryOf(favorites[i])})
                       = Cardinality({k \in DOMAIN favorites :
                                        Listed(favorites[k]) /\ EntryOf(favorites[k]) = EntryOf(favorites[i])})
           /\ \A j \in DOMAIN actions :
                \E doc \in Docs :
                    /\ doc.id = actions[j].id
                    /\ doc.type \in {"spell", "consumable", "weapon", "feat"}

\* C10 witness: favorites referencing a weapon, a piece of equipment and a
\* broken reference yield exactly the weapon.
C10_Witness ==
    /\ last.h = "getActions"
    /\ favorites = <<[id |-> <<".Item.", "w1">>, sort |-> [has |-> TRUE, n |-> 1]],
                     [id |-> <<".Item.", "e1">>, sort |-> [has |-> TRUE, n |-> 2]],
                     [id |-> <<".Item.", "x9">>, sort |-> [has |-> FALSE, n |-> 0]]>>
    /\ actions = <<[id |-> "w1", name |-> "Dagger", img |-> "dagger.webp", sort |-> 1]>>


\* The entries of the listed favorites, in the order of the stored array.
ListedEntries ==
    LET listed == SelectSeq(favorites, Listed)
    IN [i \in DOMAIN listed |-> EntryOf(listed[i])]

\* C11: the list getActions produced is ascending by `sort`, a favorite
\* without sort key being ordered as one with key 0, and the entries of each
\* sort key are in the order of the stored favorites array.
C11_Ordering ==
    last.h = "getActions"
        => /\ \A i, j \in DOMAIN actions : i < j => actions[i].sort <= actions[j].sort
           /\ \A k \in {0, 1, 2} :
                SelectSeq(actions, LAMBDA e : e.sort = k)
                    = SelectSeq(ListedEntries, LAMBDA e : e.sort = k)

\* C11 witness: keys 2, none, 0 on three different items: the keyless entry
\* comes first, then the entry of key 0, then the entry of key 2.
C11_Witness ==
    /\ last.h = "getActions"
    /\ favorites = <<[id |-> <<".Item.", "w1">>, sort |-> [has |-> TRUE, n |-> 2]],
                     [id |-> <<".Item.", "f1">>, sort |-> [has |-> FALSE, n |-> 0]],
                     [id |-> <<".Item.", "s1">>, sort |-> [has |-> TRUE, n |-> 0]]>>
    /\ actions = <<[id |-> "f1", name |-> "Rage", img |-> "rage.webp", sort |-> 0],
                   [id |-> "s1", name |-> "Shield", img |-> "shield.webp", sort |-> 0],
                   [id |-> "w1", name |-> "Dagger", img |-> "dagger.webp", sort |-> 2]>>


(***************************************************************************)
(* The party roster, checked under SpecParty.                              *)
(***************************************************************************)
\* C12: the roster getPartyCharacters returned is, with party-only-active
\* true, exactly the character actors with a token on the canvas and, with it
\* false, exactly the character actors; no actor of another type is in it.
C12_RosterFilter ==
    (last.h = "getPartyCharacters" /\ ~out.uncaught)
        => /\ \A a \in ActorIds :
                a \in roster <=> /\ a \in exists
                                 /\ actorTypes[a] = "character"
                                 /\ (partyOnlyActive => a \in tokens)
           /\ roster \subseteq ActorIds

\* C12 witness: two characters, only a1 with a token, the setting true: the
\* roster is a1 alone.
C12_Witness ==
    /\ last.h = "getPartyCharacters"
    /\ ~out.uncaught
    /\ partyOnlyActive
    /\ exists = ActorIds
    /\ \A a \in ActorIds : actorTypes[a] = "character"
    /\ tokens = {"a1"}
    /\ roster = {"a1"}


(***************************************************************************)
(* The Display-Model Builder, checked under SpecView.                      *)
(***************************************************************************)
\* The actor has hit points value and max, and max > 0
HasHitPoints ==
    /\ actor.present
    /\ actor.hpValue.t = "number"
    /\ actor.hpMax.t = "number"
    /\ actor.hpMax.n > 0

\* C13: for an actor with max > 0 every view-model built has
\* percent = floor(value / max * 100) and status "healthy" exactly when
\* value / max > 0.5, "injured" otherwise.
C13_PercentAndStatus ==
    HasHitPoints
        => \A k \in DOMAIN views :
             /\ views[k].hp.percent = Number((100 * actor.hpValue.n) \div actor.hpMax.n)
             /\ views[k].hp.status = "healthy" <=> 2 * actor.hpValue.n > actor.hpMax.n
             /\ views[k].hp.status \in {"healthy", "injured"}

\* C14: for an actor whose max hit points are 0 or undefined every view-model
\* built has a finite number as hp.percent.
C14_PercentDefined ==
    (actor.present /\ (actor.hpMax.t = "undefined" \/ actor.hpMax = Number(0)))
        => \A k \in DOMAIN views : views[k].hp.percent.t = "number"

\* C15: `ini` is init.total for a structure with total, the scalar for a
\* scalar, 0 when init is absent, and in every case a number.
C15_Initiative ==
    actor.present
        => \A k \in DOMAIN views :
             /\ views[k].ini.t = "number"
             /\ (actor.init.t = "object" /\ actor.init.f) => views[k].ini.n = actor.init.n
             /\ actor.init.t = "number" => views[k].ini.n = actor.init.n
             /\ actor.init.t = "undefined" => views[k].ini.n = 0

\* C16: `armor` is the scalar armor class for a scalar and for a {value}
\* structure, value 0 included, "" when absent and never the structure;
\* absent level, race, class and speed give 1, "", "" and 0.
C16_ArmorAndDefaults ==
    actor.present
        => \A k \in DOMAIN views :
             /\ views[k].armor.t # "object"
             /\ (actor.ac.t = "object" /\ actor.ac.f) => views[k].armor = Number(actor.ac.n)
             /\ (actor.ac.t = "number" /\ actor.ac.n # 0) => views[k].armor = actor.ac
             /\ actor.ac.t = "undefined" => views[k].armor = Str("")
             /\ actor.level.t = "undefined" => views[k].level = Number(1)
             /\ actor.race.t = "undefined" => views[k].race = Str("")
             /\ actor.class.t = "undefined" => views[k].class = Str("")
             /\ actor.walk.t = "undefined" => views[k].speed = Number(0)

ActionGuardsPassed == last.h = "rollAction" /\ ~MissingRollContext

CardCalls == {"item.toChat", "ChatMessage.create"}
ActivityRolls == {"activities[1].roll", "activities[2].roll", "activities[3].roll"}

\* C18: once the guards of rollAction pass exactly one outcome occurs: for an
\* item with a rollable activity the roll of the first such activity and no
\* card, for an item with none its card, and a warning only for an item with
\* neither a rollable activity nor a way to display a card.
C18_CapabilityChain ==
    ActionGuardsPassed
        => LET item == Item(last.el.key)
               rollable == {i \in DOMAIN item.acts : item.acts[i]}
           IN /\ (out.call # "none") # (out.warn # "")
              /\ rollable # {}
                   => /\ out.call \in ActivityRolls
                      /\ \E i \in rollable :
                            /\ out.call = ActivityRoll(i)
                            /\ \A j \in rollable : i <= j
              /\ (rollable = {} /\ (item.toChat \/ item.desc)) => out.call \in CardCalls
              /\ out.warn # "" <=> (rollable = {} /\ ~item.toChat /\ ~item.desc)

\* C18 witness: the sword's first activity cannot roll, its second and third
\* can: the second is rolled.
C18_Witness ==
    /\ ActionGuardsPassed
    /\ last.el.key = "sword"
    /\ out.call = "activities[2].roll"
    /\ out.warn = ""

\* C19: once the guards of rollSkill pass exactly one skill-roll method is
\* called: rollSkillV2 when the actor exposes it, rollSkill otherwise, and
\* never rollSkill after rollSkillV2, also when the call fails.
C19_SkillCapabilityCheck ==
    (last.h = "rollSkill" /\ ~MissingRollContext)
        => /\ out.call \in {"rollSkillV2", "rollSkill"}
           /\ out.call = "rollSkillV2" <=> last.cap = "rollSkillV2"
           /\ out.warn = ""

\* C19 witness: the actor exposes rollSkillV2 and the call rejects: it was the
\* only call.
C19_Witness ==
    /\ last.h = "rollSkill"
    /\ ~MissingRollContext
    /\ last.cap = "rollSkillV2"
    /\ out.uncaught
    /\ out.call = "rollSkillV2"

\* C20: after selectToken ran on a picture whose character has no token on
\* the canvas a warning was surfaced and nothing was selected; where a token
\* exists, the token of that character is the controlled one.
C20_SelectToken ==
    (last.h = "selectToken" /\ last.el.anc /\ last.el.characterId # "")
        => IF last.el.characterId \in tokens /\ last.el.characterId \in exists
           THEN controlled = last.el.characterId /\ out.call = "token.control"
           ELSE out.warn # "" /\ out.call = "none"


(***************************************************************************)
(* The hook subscriptions and the renders, checked under SpecHooks.        *)
(***************************************************************************)
\* The calls of a step in which renderParty ran: alone, or after a
\* renderCharacter that found no character; having returned at the setting,
\* thrown in getPartyCharacters, or reached renderTemplate.
PartySuppressed == {"renderParty", "renderCharacter, renderParty"}
PartyThrew == {"renderParty, getPartyCharacters",
               "renderCharacter, renderParty, getPartyCharacters"}
PartyRequested == {"renderParty, getPartyCharacters, renderTemplate",
                   "renderCharacter, renderParty, getPartyCharacters, renderTemplate"}
RanParty == PartySuppressed \cup PartyThrew \cup PartyRequested

PartyTasks(q) == {j \in DOMAIN q : q[j].at = "party"}

\* The view-models of the current roster
CurrentRoster ==
    {[id |-> a, hp |-> hp[a]] :
        a \in {b \in ActorIds : actorTypes[b] = "character" /\ (partyOnlyActive => b \in tokens)}}

Requested == PartyRequested \cup {"renderCharacter, renderTemplate"}

\* The suspended handler whose renderTemplate resolved in the step
Completed(i) ==
    /\ i \in DOMAIN tasks
    /\ tasks[i].at # "timeout"
    /\ Len(tasks') >= Len(tasks) - 1
    /\ SubSeq(tasks', 1, Len(tasks) - 1) = Without(tasks, i)

\* C22 as stated: of two renders of the player container in flight at once,
\* the one whose template call completes last determines what the container
\* shows.
C22_LastCompletedAlwaysShows ==
    [][(/\ last.h = "templateRendered" /\ last.ctx # "party"
        /\ last'.h = "templateRendered" /\ last'.ctx # "party")
          => \E i \in DOMAIN tasks : Completed(i) /\ hud' = tasks[i].data]_vars

\* C22, amended: a render that reaches renderTemplate is suspended beside
\* the ones in flight, none of which is dropped or changed by it (only a
\* render that finds no character removes the element they captured); when a
\* template call completes, whatever else is in flight and whenever it
\* started, its markup becomes the content of the party container or of a
\* player container still on the page, and a player container removed since
\* the render started shows no change.
C22_LastCompletedWriteWins ==
    [][/\ (last'.h # "templateRendered" /\ last'.h # "timeout" /\ out'.call \in Requested)
            => /\ Len(tasks') = Len(tasks) + 1
               /\ \A j \in DOMAIN tasks :
                     /\ tasks'[j].at = tasks[j].at
                     /\ tasks'[j].data = tasks[j].data
                     /\ tasks'[j].characters = tasks[j].characters
       /\ last'.h = "templateRendered"
            => \E i \in DOMAIN tasks :
                  /\ Completed(i)
                  /\ last'.ctx = "party"
                        => tasks[i].at = "party" /\ party' = tasks[i].characters /\ hud' = hud
                  /\ last'.ctx = "character"
                        => tasks[i].at = "character" /\ ~tasks[i].stale /\ hud' = tasks[i].data
                  /\ last'.ctx = "removed"
                        => tasks[i].at = "character" /\ tasks[i].stale /\ hud' = hud]_vars

\* C22 witness: two renders of the player container were in flight at once;
\* the one started later, with the live hit points, has completed and is
\* shown, the one started earlier is still in flight.
C22_Witness ==
    /\ last.h = "templateRendered"
    /\ last.ctx = "character"
    /\ Len(tasks) = 1
    /\ tasks[1].at = "character"
    /\ ~tasks[1].stale
    /\ tasks[1].data.id = hud.id
    /\ hud.hp = hp[hud.id]
    /\ tasks[1].data.hp # hud.hp


\* C25: whenever no handler is suspended (no render in flight, no delayed
\* render pending), the player HUD shows the character getCharacter returns
\* with its live hit points, or is empty when there is none.
C25_HudConverges ==
    tasks = <<>>
        => hud = IF GetCharacter = None THEN EmptyHud
                 ELSE [id |-> GetCharacter, hp |-> hp[GetCharacter]]

(***************************************************************************)
(* The party HUD and the hit-points editor, checked under SpecGestures.    *)
(***************************************************************************)
\* A gesture on an element of the party container was handled in the step
OnParty == last.target = "party field" \/ last.h \in {"openSheet", "selectToken"}

ControlledNow == IF canvasTokens.layer THEN canvasTokens.controlled ELSE <<>>

\* The first controlled token resolves to an actor, directly or through its
\* document's actor id.
FirstResolves ==
    /\ ControlledNow # <<>>
    /\ \/ ControlledNow[1].actor # None
       \/ ControlledNow[1].document /\ ControlledNow[1].actorId \in exists

\* C24: what getCharacter returned is, when a token is controlled and the
\* first controlled token resolves to an actor, that actor (the token's own,
\* else the one of its document's actor id); otherwise the user's assigned
\* character, or undefined without one.  It is computed from the host state
\* of the call, whatever an earlier call returned.
C24_ResolutionOrder ==
    last.h = "getCharacter"
        => resolved = IF FirstResolves
                      THEN IF ControlledNow[1].actor # None
                           THEN ControlledNow[1].actor
                           ELSE ControlledNow[1].actorId
                      ELSE userChar

\* C24 witness: the first of two controlled tokens has no actor of its own
\* but a document whose actor exists; the second token and the user have
\* another actor; getCharacter returned the first token's.
C24_Witness ==
    /\ last.h = "getCharacter"
    /\ Len(ControlledNow) = 2
    /\ ControlledNow[1] = [actor |-> None, document |-> TRUE, actorId |-> "a2"]
    /\ ControlledNow[2].actor = "a1"
    /\ userChar = "a1"
    /\ "a2" \in exists
    /\ resolved = "a2"


(***************************************************************************)
(* Deltas confirmed in the hit-points editor, checked under SpecDeltas.    *)
(***************************************************************************)
\* The host applied the oldest update request in the step
Applied ==
    /\ pendingUpdates # <<>>
    /\ Len(pendingUpdates') = Len(pendingUpdates) - 1
    /\ last'.h # "enter-rejected"

\* C26: no confirmed delta is lost: when the request of a delta completes,
\* the actor's hit points move by that delta, so that after n such requests
\* they are the initial value plus the sum of the n deltas, also where Enter
\* was pressed again while a request was in flight.
C26_DeltasAddUp ==
    [][(/\ Applied
        /\ StartsWithSign(Head(pendingUpdates).input)
        /\ NumericText(Head(pendingUpdates).input))
          => hp'[Head(pendingUpdates).actor] =
                Add(hp[Head(pendingUpdates).actor],
                    Num(SignedValue(Head(pendingUpdates).input)))]_vars


(***************************************************************************)
(* Clicks inside an ability, checked under SpecClicks.                     *)
(***************************************************************************)
\* A click landed inside an ability whose actor the host knows
ClickedAbility == last.h = "click" /\ last.ctx = "ok"

\* C27: a click on the save label of an ability starts exactly one saving
\* throw and no ability check; a click on the ability outside the save label
\* starts exactly one ability check and no saving throw.
C27_OneRollPerClick ==
    ClickedAbility =>
        /\ last.target = "save" => out.call = "rollSavingThrow"
        /\ last.target # "save" => out.call = "rollAbilityCheck"
        /\ last.el.characterId = last.pre.hud.id

C27_Witness ==
    /\ ClickedAbility
    /\ last.target = "save"
    /\ last.cap = "rollSave"
    /\ out.call = "rollSavingThrow"


(***************************************************************************)
(* The token and actor hooks, checked under SpecHooks.                     *)
(***************************************************************************)
\* The calls of a step that started a render of the character
CharacterStarted == {"renderCharacter", "renderCharacter, renderTemplate"}

\* The player container and what it shows
playerContainer == <<hud, actionsShown, statsShown, doll, fieldValue, datasetValue, focused>>

\* C28: on a controlToken or deleteToken event a render of the character is
\* started exactly when the user is a GM; for any other user the event
\* starts no render and leaves the player HUD and the party HUD as they were.
C28_TokenEventsRenderForGmOnly ==
    [][last'.h \in {"controlToken", "deleteToken"}
         => /\ out'.call \in CharacterStarted <=> isGM
            /\ ~isGM => /\ out'.call = ""
                        /\ UNCHANGED <<playerContainer, party, tasks>>]_vars

\* C28 witness: a user who is no GM took control of the token of another
\* actor than the one shown, and nothing was started.
C28_Witness ==
    /\ ~isGM
    /\ last.h = "controlToken"
    /\ controlled = "a2"
    /\ hud.id = "a1"
    /\ out.call = ""
    /\ tasks = <<>>

\* The calls of a step that started a render of the party
PartyStarted == {"renderParty", "renderParty, getPartyCharacters",
                 "renderParty, getPartyCharacters, renderTemplate"}

\* The suspended render of the character whose handler goes on with
\* renderParty completed in the step
CharacterOfBothDone ==
    \E i \in DOMAIN tasks :
        Completed(i) /\ tasks[i].at = "character" /\ tasks[i].next = "renderParty"

\* C29: every updateActor event starts a render of the party, after a render
\* of the character exactly when the updated actor is the one getCharacter
\* returns at that moment; an update of any other actor leaves the player
\* container as it was.
C29_ActorUpdatesRender ==
    [][/\ last'.h = "updateActor"
            => IF last'.el.characterId = GetCharacter'
               THEN /\ out'.call = "renderCharacter, renderTemplate"
                    /\ tasks' = Append(tasks, Task("character", "renderParty",
                                                   [id |-> GetCharacter', hp |-> hp'[GetCharacter']], {}))
               ELSE /\ out'.call \in PartyStarted
                    /\ UNCHANGED playerContainer
       /\ (last'.h = "templateRendered" /\ CharacterOfBothDone)
            => out'.call \in PartyStarted]_vars

\* C29 witness: the shown character was updated, its render completed and
\* the party render the handler went on with is in flight.
C29_Witness ==
    /\ last.h = "templateRendered"
    /\ last.ctx = "character"
    /\ out.call = "renderParty, getPartyCharacters, renderTemplate"
    /\ hud = [id |-> "a1", hp |-> Num(9)]
    /\ tasks # <<>>
    /\ tasks[Len(tasks)].at = "party"


\* C30: every setting a render reads is read under the namespace the init
\* hook registered it in, so that no run of renderParty ends in the host's
\* error for an unregistered setting.
C30_SettingsReadAsRegistered ==
    out.call \in RanParty => /\ ~out.uncaught
                             /\ out.call \notin PartyThrew

=============================================================================
